---- MODULE Spec2Model ----
(***************************************************************************)
(* A model of xk6-exec (src/exec/module.go): the Cmd builder (NewCmd, Arg, *)
(* Env), Command.Exec with its worker goroutine, the promise bridge        *)
(* makeHandledPromise, the child process with its two pipes, the VU        *)
(* context, the VU event loop and the metric sample channel.               *)
(***************************************************************************)
EXTENDS Integers, Sequences, FiniteSets, TLC

(***************************************************************************)
(* Bounds of the model.                                                    *)
(***************************************************************************)
\* number of Exec calls issued by the script
MaxExec == 2
\* capacity of an OS pipe, in bytes
PipeCap == 1
\* bytes a child process writes in total before it exits
MaxWrites == 2
\* capacity of the VU's sample channel (vuState.Samples), in batches
SinkCap == 1
\* largest exit code a child chooses
MaxExitCode == 1
\* largest measured duration, in milliseconds
MaxDuration == 1
\* number of builder values the script creates
MaxBuilders == 6
\* number of calls a test harness makes of one handle's resolve and reject
MaxCalls == 2
\* number of builder values of a script that also calls Exec
MaxScript == 2
\* number of child processes that have a descendant alive at a time
MaxHeirs == 1
\* bytes the children of a script of several executions write without
\* waiting, in total
TwoWrites == 1
\* streams the children of a script of several executions close early in total
TwoCloses == 1

Names == {"echo", "motus"}
ArgValues == {"x", "y"}
EnvKeys == {"K", "L"}
EnvValues == {"1", "2"}

(***************************************************************************)
(* State.                                                                  *)
(***************************************************************************)
VARIABLES
    \* the builder heap
    arrays,      \* backing arrays of argument slices: Seq of Seq of string
    envs,        \* Go maps behind Command.env: Seq of sets of <<key, value>>
    builders,    \* Command values held by the script
    chain,       \* chain[b]: the calls that made builders[b], as a value
    \* the bridge and the event loop
    nexec,       \* number of Exec calls made so far; handles are 1..nexec
    promise,     \* promise[i]: the goja promise returned by the i-th Exec
    calls,       \* calls[i]: how often the wrapped resolve / reject of i ran
    cbCalls,     \* cbCalls[i]: how often the callback of RegisterCallback ran
    registeredCallbacks, \* the loop's count of callbacks not yet called
    queue,       \* the loop's queue of closures handed to callback
    loop,        \* "running", "finished" (nothing left to wait for), "stopped"
    panicked,    \* a Go panic was raised
    \* the execution context, processes and workers
    ctxDone,     \* vu.Context() is cancelled
    proc,        \* proc[i]: the child process started by the i-th Exec
    launch,      \* launch[i]: what the system answered the i-th Exec's launch
    worker,      \* worker[i]: the goroutine of the i-th Exec
    Samples,     \* vuState.Samples: the channel of sample batches
    emitted      \* emitted[i]: the batches the i-th worker sent, in order

bvars == <<arrays, envs, builders, chain>>
lvars == <<nexec, promise, calls, cbCalls, registeredCallbacks, queue, loop, panicked>>
pvars == <<ctxDone, proc, launch, worker, Samples, emitted>>
vars == <<arrays, envs, builders, chain, nexec, promise, calls, cbCalls,
          registeredCallbacks, queue, loop, panicked, ctxDone, proc, launch,
          worker, Samples, emitted>>

Execs == 1..MaxExec
Issued == 1..nexec

(***************************************************************************)
(* The builder: Command values over a heap of arrays and maps.             *)
(***************************************************************************)
\* A Command value: Name, the slice header of args (array, len, cap) and the
\* reference to the env map.  Array 0 is the zero-size array of make([]string, 0).
Command(name, arr, len, cap, env) ==
    [Name |-> name, arr |-> arr, len |-> len, cap |-> cap, env |-> env]

\* the elements of a slice header over the heap h
SliceOf(h, c) == IF c.len = 0 THEN <<>> ELSE SubSeq(h[c.arr], 1, c.len)

\* c.args as the program reads it now
args(c) == SliceOf(arrays, c)

\* c.env as the program reads it now
env(c) == envs[c.env]

\* capacity chosen by append when the array is full (runtime growslice, small
\* slices: the doubled capacity, at least the needed length)
GrowCap(cap) == IF cap = 0 THEN 1 ELSE 2 * cap

Zeroes(n) == [k \in 1..n |-> ""]

\* mutant of MapSet: a key that is already set keeps its first value
MapSetKeepFirst(m, key, value) ==
    IF \E p \in m : p[1] = key THEN m ELSE m \cup {<<key, value>>}

\* m[key] = value on a Go map
MapSet(m, key, value) == {p \in m : p[1] # key} \cup {<<key, value>>}

\* append(c.args, arg) of Command.Arg: the new heap and the returned value.
\* With spare capacity the element is stored in the shared array; without,
\* the elements are copied to a new array of capacity GrowCap.
AppendArg(h, c, arg) ==
    IF c.len < c.cap
    THEN [heap |-> [h EXCEPT ![c.arr][c.len + 1] = arg],
          cmd  |-> Command(c.Name, c.arr, c.len + 1, c.cap, c.env)]
    ELSE [heap |-> Append(h, SliceOf(h, c) \o <<arg>>
                             \o Zeroes(GrowCap(c.cap) - c.len - 1)),
          cmd  |-> Command(c.Name, Len(h) + 1, c.len + 1, GrowCap(c.cap), c.env)]

\* c.env[key] = value of Command.Env: the map is shared by reference
SetEnv(m, c, key, value) == [m EXCEPT ![c.env] = MapSet(@, key, value)]

\* What a chain of calls denotes, read call by call: the receiver the value
\* was made from (0 for new Cmd), the Arg values in call order and, per key,
\* the value of the last Env call ("" while the key was never set)
Chain(from, as, vs) == [from |-> from, args |-> as, env |-> vs]

Fresh == Chain(0, <<>>, [k \in EnvKeys |-> ""])

\* new Cmd(name): empty args (make([]string, 0)) and a fresh empty map
NewCmd(name) ==
    /\ Len(builders) < MaxBuilders
    /\ envs' = Append(envs, {})
    /\ builders' = Append(builders, Command(name, 0, 0, 0, Len(envs) + 1))
    /\ chain' = Append(chain, Fresh)
    /\ UNCHANGED <<arrays, lvars, pvars>>

\* builders[b].Arg(arg): value receiver, returns the copy with arg appended
Arg(b, arg) ==
    /\ Len(builders) < MaxBuilders
    /\ LET r == AppendArg(arrays, builders[b], arg)
       IN /\ arrays' = r.heap
          /\ builders' = Append(builders, r.cmd)
    /\ chain' = Append(chain, Chain(b, chain[b].args \o <<arg>>, chain[b].env))
    /\ UNCHANGED <<envs, lvars, pvars>>

\* builders[b].Env(key, value): value receiver, returns the copy
Env(b, key, value) ==
    /\ Len(builders) < MaxBuilders
    /\ envs' = SetEnv(envs, builders[b], key, value)
    /\ builders' = Append(builders, builders[b])
    /\ chain' = Append(chain, Chain(b, chain[b].args,
                                    [chain[b].env EXCEPT ![key] = value]))
    /\ UNCHANGED <<arrays, lvars, pvars>>

(***************************************************************************)
(* The bridge: makeHandledPromise over the event loop.                     *)
(***************************************************************************)
\* the values handed to resolve and reject (Go's interface{}): undefined,
\* an error, a string, or a CommandResult
Value(type, text, exitCode, stdout, stderr) ==
    [type |-> type, text |-> text, exitCode |-> exitCode,
     stdout |-> stdout, stderr |-> stderr]

Undefined == Value("undefined", "", 0, "", "")

ErrorValue(text) == Value("error", text, 0, "", "")

StringValue(text) == Value("string", text, 0, "", "")

\* what a second call of the single-use callback of RegisterCallback may do
Dups == {"panic", "enqueue"}

\* the bridge's part of the state, as one value
Bridge ==
    [promise |-> promise, calls |-> calls, cbCalls |-> cbCalls,
     registeredCallbacks |-> registeredCallbacks, queue |-> queue,
     panicked |-> panicked]

SetBridge(L) ==
    /\ promise' = L.promise
    /\ calls' = L.calls
    /\ cbCalls' = L.cbCalls
    /\ registeredCallbacks' = L.registeredCallbacks
    /\ queue' = L.queue
    /\ panicked' = L.panicked

\* the closure func() error { resolve(i) / reject(i); return nil } of handle h
Closure(h, kind, v) == [id |-> h, kind |-> kind, val |-> v]

\* goja's resolving functions: they settle a pending promise and do nothing
\* on a settled one
Settle(p, kind, v) ==
    IF p.state = "pending"
    THEN [state |-> IF kind = "resolve" THEN "fulfilled" ELSE "rejected",
          value |-> v]
    ELSE p

\* callback(f): hands f to the loop and gives the registration back; the
\* callback is single-use, a second call is outside its contract (dup)
callback(L, h, f, dup) ==
    LET M == [L EXCEPT !.cbCalls[h] = @ + 1]
    IN IF L.cbCalls[h] = 0 \/ dup = "enqueue"
       THEN [M EXCEPT !.queue = Append(@, f),
                      !.registeredCallbacks = @ - 1]
       ELSE [M EXCEPT !.panicked = TRUE]

\* the resolve function makeHandledPromise returns
resolve(L, h, v, dup) ==
    callback([L EXCEPT !.calls[h].resolve = @ + 1], h, Closure(h, "resolve", v), dup)

\* mutant of reject: the promise is rejected by the caller of reject itself,
\* on its own thread, and the callback is handed a closure that does nothing
rejectDirect(L, h, v, dup) ==
    callback([L EXCEPT !.calls[h].reject = @ + 1,
                       !.promise[h] = Settle(@, "reject", v)],
             h, Closure(h, "none", v), dup)

\* the reject function makeHandledPromise returns
reject(L, h, v, dup) ==
    callback([L EXCEPT !.calls[h].reject = @ + 1], h, Closure(h, "reject", v), dup)

\* makeHandledPromise: one RegisterCallback, one new pending promise
makeHandledPromise(L, h) ==
    [L EXCEPT !.registeredCallbacks = @ + 1,
              !.promise[h] = [state |-> "pending", value |-> Undefined],
              !.calls[h] = [resolve |-> 0, reject |-> 0],
              !.cbCalls[h] = 0]

\* the event loop runs the closure at the head of its queue
RunCallback ==
    /\ loop = "running"
    /\ ~panicked
    /\ queue # <<>>
    /\ LET f == Head(queue)
       IN promise' = [promise EXCEPT ![f.id] = Settle(@, f.kind, f.val)]
    /\ queue' = Tail(queue)
    /\ UNCHANGED <<bvars, nexec, calls, cbCalls, registeredCallbacks, loop,
                   panicked, pvars>>

\* the loop ends once its queue is empty and no callback is registered
LoopFinish ==
    /\ loop = "running"
    /\ ~panicked
    /\ queue = <<>>
    /\ registeredCallbacks = 0
    /\ loop' = "finished"
    /\ UNCHANGED <<bvars, nexec, promise, calls, cbCalls, registeredCallbacks,
                   queue, panicked, pvars>>

\* with the VU context cancelled the loop is torn down; queued closures are
\* left unexecuted
LoopStop ==
    /\ loop = "running"
    /\ ctxDone
    /\ loop' = "stopped"
    /\ UNCHANGED <<bvars, nexec, promise, calls, cbCalls, registeredCallbacks,
                   queue, panicked, pvars>>

(***************************************************************************)
(* Command.Exec: the synchronous part, run on the loop's thread.           *)
(***************************************************************************)
LookPaths == {"found", "errdot", "notfound"}
LaunchFails == {"none", "stdoutpipe", "stderrpipe", "start"}
\* the byte a child writes to a stream
ByteOf == [stdout |-> "o", stderr |-> "e"]
Streams == {"stdout", "stderr"}
AmbientEnv == {<<"PATH", "/bin">>}
AmbientTags == {<<"scenario", "default">>}

NoProc ==
    [state |-> "none", code |-> 0, stdout |-> "", stderr |-> "",
     blocked |-> <<>>, nwrites |-> 0, wrote |-> [s \in Streams |-> ""],
     waited |-> FALSE, argv |-> <<>>, environ |-> {},
     open |-> [s \in Streams |-> FALSE], heir |-> [s \in Streams |-> FALSE]]

NoWorker ==
    [pc |-> "none", cmd |-> 0, stdoutBytes |-> "", stderrBytes |-> "",
     exitCode |-> 0, batch |-> <<>>]

\* mutant of LaunchFault: the errors of StdoutPipe and StderrPipe are not checked
LaunchFaultNoPipeCheck(look, fail) ==
    IF look = "notfound" THEN "ErrNotFound"
    ELSE IF fail = "start" THEN "ErrStart"
    ELSE ""

\* the error Exec rejects with before a process exists; "" when none.
\* exec.ErrDot from LookPath is dropped, any other lookup error is a fault.
LaunchFault(look, fail) ==
    IF look = "notfound" THEN "ErrNotFound"
    ELSE IF fail = "stdoutpipe" THEN "ErrStdoutPipe"
    ELSE IF fail = "stderrpipe" THEN "ErrStderrPipe"
    ELSE IF fail = "start" THEN "ErrStart"
    ELSE ""

\* what the system answered a launch: whether LookPath gave a path to run
\* (found, or exec.ErrDot with its path) and which later step failed
Answers(look, fail) ==
    [look |-> IF look = "notfound" THEN "notfound" ELSE "resolved",
     fail |-> IF look = "notfound" THEN "none" ELSE fail]

\* append(cmd.Environ(), environ...): the overrides win over the ambient entries
MergeEnv(ambient, overrides) ==
    {p \in ambient : \A q \in overrides : q[1] # p[1]} \cup overrides

\* the process cmd.Start creates for Command c
StartedProc(c) ==
    [NoProc EXCEPT !.state = "running",
                   !.open = [s \in Streams |-> TRUE],
                   !.argv = <<c.Name>> \o args(c),
                   !.environ = MergeEnv(AmbientEnv, env(c))]

\* builders[b].Exec(): creates the handle, then either rejects it with a
\* launch fault or starts the process and its worker
Exec(b, look, fail) ==
    /\ loop = "running"
    /\ ~panicked
    /\ nexec < MaxExec
    \* cmd.Start refuses a context that is already done
    /\ (ctxDone /\ look # "notfound") => fail # "none"
    /\ LET h == nexec + 1
           c == builders[b]
           L == makeHandledPromise(Bridge, h)
           fault == LaunchFault(look, fail)
       IN /\ nexec' = h
          /\ \E dup \in Dups :
                SetBridge(IF fault # ""
                          THEN reject(L, h, ErrorValue(fault), dup) ELSE L)
          /\ launch' = [launch EXCEPT ![h] = Answers(look, fail)]
          /\ proc' = [proc EXCEPT ![h] = IF fault # "" THEN @ ELSE StartedProc(c)]
          /\ worker' = [worker EXCEPT ![h] =
                           IF fault # "" THEN @
                           ELSE [@ EXCEPT !.pc = "readStdout", !.cmd = b]]
    /\ UNCHANGED <<bvars, loop, ctxDone, Samples, emitted>>

(***************************************************************************)
(* The child process and the VU context.                                   *)
(***************************************************************************)
\* the process has terminated: it exited or it was killed
Gone(p) == p.state \in {"exited", "killed"}

\* every write end of the pipe of stream s is closed: the child closed its
\* own or is gone, and no descendant of the child holds an inherited one.
\* Only then does a Read of the empty pipe return end of file.
Closed(p, s) == (Gone(p) \/ ~p.open[s]) /\ ~p.heir[s]

\* the child writes one byte to a stream; with the pipe full it blocks in the
\* write until the reader makes room
ChildWrite(h, s) ==
    /\ proc[h].state = "running"
    /\ proc[h].blocked = <<>>
    /\ proc[h].open[s]
    /\ proc[h].nwrites < MaxWrites
    /\ proc' = [proc EXCEPT ![h] =
                   IF Len(@[s]) < PipeCap
                   THEN [@ EXCEPT ![s] = @ \o ByteOf[s],
                                  !.nwrites = @ + 1,
                                  !.wrote[s] = @ \o ByteOf[s]]
                   ELSE [@ EXCEPT !.blocked = <<s, ByteOf[s]>>]]
    /\ UNCHANGED <<bvars, lvars, ctxDone, launch, worker, Samples, emitted>>

\* a blocked write completes when the pipe has room
ChildUnblock(h) ==
    /\ proc[h].state = "running"
    /\ proc[h].blocked # <<>>
    /\ LET s == proc[h].blocked[1]
           byte == proc[h].blocked[2]
       IN /\ Len(proc[h][s]) < PipeCap
          /\ proc' = [proc EXCEPT ![h] =
                         [@ EXCEPT ![s] = @ \o byte,
                                   !.nwrites = @ + 1,
                                   !.wrote[s] = @ \o byte,
                                   !.blocked = <<>>]]
    /\ UNCHANGED <<bvars, lvars, ctxDone, launch, worker, Samples, emitted>>

\* the child closes its own write end of a stream and keeps running
ChildClose(h, s) ==
    /\ proc[h].state = "running"
    /\ proc[h].blocked = <<>>
    /\ proc[h].open[s]
    /\ proc' = [proc EXCEPT ![h].open[s] = FALSE]
    /\ UNCHANGED <<bvars, lvars, ctxDone, launch, worker, Samples, emitted>>

\* the streams of h whose write end a descendant of the child holds
Heirs(h) == {s \in Streams : proc[h].heir[s]}

\* the child starts a descendant that inherits write ends the child has open
\* and keeps the ones in keep; the descendant writes nothing
ChildFork(h, keep) ==
    /\ proc[h].state = "running"
    /\ proc[h].blocked = <<>>
    /\ Cardinality({i \in Execs : Heirs(i) # {}}) < MaxHeirs
    /\ keep # {}
    /\ \A s \in keep : proc[h].open[s]
    /\ proc' = [proc EXCEPT ![h].heir = [s \in Streams |-> s \in keep]]
    /\ UNCHANGED <<bvars, lvars, ctxDone, launch, worker, Samples, emitted>>

\* the descendant exits, which closes the write ends it holds; nothing
\* makes it exit, and the kill of the child does not reach it
HeirExit(h) ==
    /\ Heirs(h) # {}
    /\ proc' = [proc EXCEPT ![h].heir = [s \in Streams |-> FALSE]]
    /\ UNCHANGED <<bvars, lvars, ctxDone, launch, worker, Samples, emitted>>

\* the child exits by itself with an exit code
ChildExit(h, code) ==
    /\ proc[h].state = "running"
    /\ proc[h].blocked = <<>>
    /\ proc' = [proc EXCEPT ![h] = [@ EXCEPT !.state = "exited", !.code = code]]
    /\ UNCHANGED <<bvars, lvars, ctxDone, launch, worker, Samples, emitted>>

\* the VU context is cancelled
Cancel ==
    /\ ~ctxDone
    /\ ctxDone' = TRUE
    /\ UNCHANGED <<bvars, lvars, proc, launch, worker, Samples, emitted>>

\* exec.CommandContext: with the context done the running process is killed
Kill(h) ==
    /\ ctxDone
    /\ proc[h].state = "running"
    /\ proc' = [proc EXCEPT ![h] =
                   [@ EXCEPT !.state = "killed", !.code = -1, !.blocked = <<>>]]
    /\ UNCHANGED <<bvars, lvars, ctxDone, launch, worker, Samples, emitted>>

(***************************************************************************)
(* The worker goroutine of Exec.                                           *)
(***************************************************************************)
Digit(d) ==
    CASE d = 0 -> "0" [] d = 1 -> "1" [] d = 2 -> "2" [] d = 3 -> "3"
      [] d = 4 -> "4" [] d = 5 -> "5" [] d = 6 -> "6" [] d = 7 -> "7"
      [] d = 8 -> "8" [] d = 9 -> "9"

RECURSIVE Utoa(_)
Utoa(n) == IF n < 10 THEN Digit(n) ELSE Utoa(n \div 10) \o Digit(n % 10)

\* strconv.Itoa
Itoa(n) == IF n < 0 THEN "-" \o Utoa(-n) ELSE Utoa(n)

\* tags.With(key, value)
With(tags, key, value) == {t \in tags : t[1] # key} \cup {<<key, value>>}

\* what cmd.Wait returns for a process that is gone: nil after exit code 0
\* (the context's error when the context is done by then), an *ExitError
\* carrying the code otherwise; ExitCode() of a killed process is -1
WaitErr(p, done) ==
    IF p.state = "killed" THEN [kind |-> "ExitError", code |-> -1]
    ELSE IF p.code # 0 THEN [kind |-> "ExitError", code |-> p.code]
    ELSE IF done THEN [kind |-> "ctx", code |-> 0]
    ELSE [kind |-> "nil", code |-> 0]

\* mutant of ExitCodeOf: the exit code is never taken from the error
ExitCodeOfZero(err) == 0

\* var exitCode int; set only from an *ExitError
ExitCodeOf(err) == IF err.kind = "ExitError" THEN err.code ELSE 0

\* the value of the exec_command_failed_rate sample, as the code computes it
failed(exitCode) == IF exitCode = 0 THEN 1 ELSE 0

\* the tag set of a batch: the ambient tags with executable and exit_code
TagsOf(name, exitCode) ==
    With(With(AmbientTags, "executable", name), "exit_code", Itoa(exitCode))

Sample(metric, tags, value, end) ==
    [Metric |-> metric, Tags |-> tags, Value |-> value, Time |-> end]

\* the metrics.ConnectedSamples pushed for one execution; instants count
\* milliseconds from the execution's start := time.Now()
ConnectedSamples(name, exitCode, stdoutBytes, stderrBytes, end) ==
    LET tags == TagsOf(name, exitCode)
    IN << Sample("exec_command_duration", tags, end - 0, end),
          Sample("exec_commands_total", tags, 1, end),
          Sample("exec_command_stdout_bytes", tags, Len(stdoutBytes), end),
          Sample("exec_command_stderr_bytes", tags, Len(stderrBytes), end),
          Sample("exec_command_failed_rate", tags, failed(exitCode), end) >>

CommandResult(exitCode, stdout, stderr) ==
    Value("CommandResult", "", exitCode, stdout, stderr)

\* the value the worker resolves with
ResultOf(w) == CommandResult(w.exitCode, w.stdoutBytes, w.stderrBytes)

\* mutant of ReadStdout: a single Read instead of io.ReadAll, the worker
\* goes on with what was buffered
ReadStdoutOnce(h) ==
    /\ worker[h].pc = "readStdout"
    /\ worker' = [worker EXCEPT ![h].stdoutBytes = @ \o proc[h].stdout,
                                ![h].pc = "readStderr"]
    /\ proc' = [proc EXCEPT ![h].stdout = ""]
    /\ UNCHANGED <<bvars, lvars, ctxDone, launch, Samples, emitted>>

\* one Read of io.ReadAll(stdout): the buffered bytes, or end of file once
\* the pipe is empty and every write end of it closed
ReadStdout(h) ==
    /\ worker[h].pc = "readStdout"
    /\ IF proc[h].stdout # ""
       THEN /\ worker' = [worker EXCEPT ![h].stdoutBytes = @ \o proc[h].stdout]
            /\ proc' = [proc EXCEPT ![h].stdout = ""]
       ELSE /\ Closed(proc[h], "stdout")
            /\ worker' = [worker EXCEPT ![h].pc = "readStderr"]
            /\ UNCHANGED proc
    /\ UNCHANGED <<bvars, lvars, ctxDone, launch, Samples, emitted>>

\* one Read of io.ReadAll(stderr)
ReadStderr(h) ==
    /\ worker[h].pc = "readStderr"
    /\ IF proc[h].stderr # ""
       THEN /\ worker' = [worker EXCEPT ![h].stderrBytes = @ \o proc[h].stderr]
            /\ proc' = [proc EXCEPT ![h].stderr = ""]
       ELSE /\ Closed(proc[h], "stderr")
            /\ worker' = [worker EXCEPT ![h].pc = "wait"]
            /\ UNCHANGED proc
    /\ UNCHANGED <<bvars, lvars, ctxDone, launch, Samples, emitted>>

\* mutant of ReadError: the return after reject is missing, the worker goes on
ReadErrorNoReturn(h) ==
    /\ worker[h].pc \in {"readStdout", "readStderr"}
    /\ \E dup \in Dups :
          SetBridge(reject(Bridge, h,
                           ErrorValue(IF worker[h].pc = "readStdout"
                                      THEN "ErrReadStdout" ELSE "ErrReadStderr"),
                           dup))
    /\ worker' = [worker EXCEPT ![h].pc = "wait"]
    /\ UNCHANGED <<bvars, nexec, loop, ctxDone, proc, launch, Samples, emitted>>

\* io.ReadAll returns an error: the worker rejects and returns
ReadError(h) ==
    /\ worker[h].pc \in {"readStdout", "readStderr"}
    /\ \E dup \in Dups :
          SetBridge(reject(Bridge, h,
                           ErrorValue(IF worker[h].pc = "readStdout"
                                      THEN "ErrReadStdout" ELSE "ErrReadStderr"),
                           dup))
    /\ worker' = [worker EXCEPT ![h].pc = "done"]
    /\ UNCHANGED <<bvars, nexec, loop, ctxDone, proc, launch, Samples, emitted>>

\* cmd.Wait returns once the process is gone; the worker takes the exit code,
\* reads the clock and builds the batch of samples
Wait(h, end) ==
    /\ worker[h].pc = "wait"
    /\ Gone(proc[h])
    /\ LET exitCode == ExitCodeOf(WaitErr(proc[h], ctxDone))
           w == worker[h]
       IN worker' = [worker EXCEPT ![h] =
                        [@ EXCEPT !.pc = "push",
                                  !.exitCode = exitCode,
                                  !.batch = ConnectedSamples(
                                      builders[w.cmd].Name, exitCode,
                                      w.stdoutBytes, w.stderrBytes, end)]]
    /\ proc' = [proc EXCEPT ![h].waited = TRUE]
    /\ UNCHANGED <<bvars, lvars, ctxDone, launch, Samples, emitted>>

\* metrics.PushIfNotDone, first half: with the context done nothing is sent
\* and the call returns; otherwise the worker goes on to send
Push(h) ==
    /\ worker[h].pc = "push"
    /\ worker' = [worker EXCEPT ![h].pc = IF ctxDone THEN "resolve" ELSE "send"]
    /\ UNCHANGED <<bvars, lvars, ctxDone, proc, launch, Samples, emitted>>

\* metrics.PushIfNotDone, second half: the send on the channel, which blocks
\* while the channel is full
Send(h) ==
    /\ worker[h].pc = "send"
    /\ Len(Samples) < SinkCap
    /\ Samples' = Append(Samples, worker[h].batch)
    /\ emitted' = [emitted EXCEPT ![h] = Append(@, worker[h].batch)]
    /\ worker' = [worker EXCEPT ![h].pc = "resolve"]
    /\ UNCHANGED <<bvars, lvars, ctxDone, proc, launch>>

\* mutant of Resolve: with the context done the worker rejects with the
\* context's error instead of resolving
ResolveOrReject(h) ==
    /\ worker[h].pc = "resolve"
    /\ \E dup \in Dups :
          SetBridge(IF ctxDone
                    THEN reject(Bridge, h, ErrorValue("ErrCanceled"), dup)
                    ELSE resolve(Bridge, h, ResultOf(worker[h]), dup))
    /\ worker' = [worker EXCEPT ![h].pc = "done"]
    /\ UNCHANGED <<bvars, nexec, loop, ctxDone, proc, launch, Samples, emitted>>

\* the worker calls resolve with the result and returns
Resolve(h) ==
    /\ worker[h].pc = "resolve"
    /\ \E dup \in Dups :
          SetBridge(resolve(Bridge, h, ResultOf(worker[h]), dup))
    /\ worker' = [worker EXCEPT ![h].pc = "done"]
    /\ UNCHANGED <<bvars, nexec, loop, ctxDone, proc, launch, Samples, emitted>>

\* the consumer of the VU's samples takes the next batch
Drain ==
    /\ Samples # <<>>
    /\ Samples' = Tail(Samples)
    /\ UNCHANGED <<bvars, lvars, ctxDone, proc, launch, worker, emitted>>

\* another producer of the VU (any other module) sends a batch of its own
OtherBatch == << Sample("http_reqs", AmbientTags, 1, 0) >>

OtherPush ==
    /\ ~ctxDone
    /\ Len(Samples) < SinkCap
    /\ Samples' = Append(Samples, OtherBatch)
    /\ UNCHANGED <<bvars, lvars, ctxDone, proc, launch, worker, emitted>>

(***************************************************************************)
(* Specifications.                                                         *)
(***************************************************************************)
NoHandles ==
    /\ nexec = 0
    /\ promise = [h \in Execs |-> [state |-> "none", value |-> Undefined]]
    /\ calls = [h \in Execs |-> [resolve |-> 0, reject |-> 0]]
    /\ cbCalls = [h \in Execs |-> 0]
    /\ registeredCallbacks = 0
    /\ queue = <<>>
    /\ loop = "running"
    /\ panicked = FALSE
    /\ ctxDone = FALSE
    /\ proc = [h \in Execs |-> NoProc]
    /\ launch = [h \in Execs |-> [look |-> "", fail |-> ""]]
    /\ worker = [h \in Execs |-> NoWorker]
    /\ Samples = <<>>
    /\ emitted = [h \in Execs |-> <<>>]

\* the script has built new Cmd("echo") and new Cmd("motus").env("K","1").arg("x")
Init ==
    /\ arrays = << <<"x">> >>
    /\ envs = << {}, {<<"K", "1">>} >>
    /\ builders = << Command("echo", 0, 0, 0, 1), Command("motus", 1, 1, 1, 2) >>
    /\ chain = << Fresh, Chain(0, <<"x">>, [Fresh.env EXCEPT !["K"] = "1"]) >>
    /\ NoHandles

\* the script calls Exec on one of its commands
Call ==
    \E b \in DOMAIN builders, look \in LookPaths, fail \in LaunchFails :
       Exec(b, look, fail)

\* a child gives up its write ends before it ends, or hands them on
Handoff ==
    \/ \E h \in Issued, s \in Streams : ChildClose(h, s)
    \/ \E h \in Issued, keep \in SUBSET Streams : ChildFork(h, keep)
    \/ \E h \in Issued : HeirExit(h)

\* the rest of what runs beside the script: the end of a child, the
\* context, the other steps of the workers, the sample channel and the loop
Rest ==
    \/ \E h \in Issued : ChildUnblock(h)
    \/ \E h \in Issued, code \in 0..MaxExitCode : ChildExit(h, code)
    \/ Cancel
    \/ \E h \in Issued : Kill(h)
    \/ \E h \in Issued : ReadStdout(h)
    \/ \E h \in Issued : ReadStderr(h)
    \/ \E h \in Issued : ReadError(h)
    \/ \E h \in Issued : Push(h)
    \/ \E h \in Issued : Send(h)
    \/ \E h \in Issued : Resolve(h)
    \/ Drain
    \/ OtherPush
    \/ RunCallback
    \/ LoopFinish
    \/ LoopStop

\* everything that runs beside the script
Run ==
    \/ \E h \in Issued, s \in Streams : ChildWrite(h, s)
    \/ Handoff
    \/ \E h \in Issued, end \in 0..MaxDuration : Wait(h, end)
    \/ Rest

Next == Call \/ Run

Spec == Init /\ [][Next]_vars

\* a script that calls Exec once
NextOne == (nexec = 0 /\ Call) \/ Run

\* the scheduling the runtime gives: runnable goroutines run, a sender blocked
\* on the channel gets the slot a receive frees, the consumer of the samples
\* keeps receiving, the kernel completes a blocked write once there is room,
\* and the loop runs what is queued
Fairness ==
    /\ \A h \in Execs :
          /\ WF_vars(ReadStdout(h))
          /\ WF_vars(ReadStderr(h))
          /\ WF_vars(\E end \in 0..MaxDuration : Wait(h, end))
          /\ WF_vars(Push(h))
          /\ SF_vars(Send(h))
          /\ WF_vars(Resolve(h))
          /\ WF_vars(Kill(h))
          /\ WF_vars(ChildUnblock(h))
    /\ WF_vars(Drain)
    /\ WF_vars(RunCallback)

SpecOne == Init /\ [][NextOne]_vars

\* the bytes the children of handles 1..n have written or are writing
RECURSIVE Written(_)
Written(n) ==
    IF n = 0 THEN 0
    ELSE proc[n].nwrites + (IF proc[n].blocked = <<>> THEN 0 ELSE 1)
            + Written(n - 1)

\* the streams the children of handles 1..n have closed early
RECURSIVE Closings(_)
Closings(n) ==
    IF n = 0 THEN 0
    ELSE Cardinality({s \in Streams : proc[n].state # "none" /\ ~proc[n].open[s]})
            + Closings(n - 1)

\* the script calls Exec on its commands in order, on each any number of
\* times: the first execution is of the first command, the next of the same
\* command again or of the one after it
InOrder ==
    \E b \in DOMAIN builders, look \in LookPaths, fail \in LaunchFails :
       b <= nexec + 1 /\ Exec(b, look, fail)

\* what runs beside a script of several executions: every step of Run, with
\* the children writing TwoWrites bytes in all and one more that finds its
\* pipe full and waits for room, closing TwoCloses streams early in all, and
\* the executions ending at distinct instants, the k-th at instant k - 1
RunTwo ==
    \/ \E h \in Issued, s \in Streams :
          /\ \/ Written(MaxExec) < TwoWrites
             \/ Written(MaxExec) = TwoWrites /\ Len(proc[h][s]) = PipeCap
          /\ ChildWrite(h, s)
    \/ \E h \in Issued, s \in Streams :
          Closings(MaxExec) < TwoCloses /\ ChildClose(h, s)
    \/ \E h \in Issued, keep \in SUBSET Streams : ChildFork(h, keep)
    \/ \E h \in Issued : HeirExit(h)
    \/ \E h \in Issued : Wait(h, (h - 1) % (MaxDuration + 1))
    \/ Rest

\* a script that calls Exec MaxExec times without awaiting: the executions
\* run concurrently
NextTwo == InOrder \/ RunTwo

SpecTwo == Init /\ [][NextTwo]_vars

LiveTwo == SpecTwo /\ Fairness

LiveSpec == SpecOne /\ Fairness

(***************************************************************************)
(* The builder alone: a script that only builds commands.                  *)
(***************************************************************************)
InitBuilder ==
    /\ arrays = <<>>
    /\ envs = <<>>
    /\ builders = <<>>
    /\ chain = <<>>
    /\ NoHandles

NextBuilder ==
    \/ \E name \in Names : NewCmd(name)
    \/ \E b \in DOMAIN builders, arg \in ArgValues : Arg(b, arg)
    \/ \E b \in DOMAIN builders, key \in EnvKeys, value \in EnvValues :
          Env(b, key, value)

SpecBuilder == InitBuilder /\ [][NextBuilder]_vars

\* builders[b] was never the receiver of a call: the end of its chain
Leaf(b) == \A k \in DOMAIN chain : chain[k].from # b

\* a script of chains: new Cmd(..).arg(..).env(..)..., every value being the
\* receiver of at most one call
NextChain ==
    \/ \E name \in Names : NewCmd(name)
    \/ \E b \in DOMAIN builders, arg \in ArgValues : Leaf(b) /\ Arg(b, arg)
    \/ \E b \in DOMAIN builders, key \in EnvKeys, value \in EnvValues :
          Leaf(b) /\ Env(b, key, value)

SpecChain == InitBuilder /\ [][NextChain]_vars

(***************************************************************************)
(* A script that runs its command, goes on building, and runs it again.    *)
(***************************************************************************)
\* the script has built new Cmd("echo").env("K","1").arg("x").arg("x").arg("x"):
\* three arguments in an array of capacity four
InitScript ==
    /\ arrays = << <<"x", "x", "x", "">> >>
    /\ envs = << {<<"K", "1">>} >>
    /\ builders = << Command("echo", 1, 3, 4, 1) >>
    /\ chain = << Chain(0, <<"x", "x", "x">>, [Fresh.env EXCEPT !["K"] = "1"]) >>
    /\ NoHandles

\* after its first Exec has returned the script calls .arg("y") or
\* .env("K", "2") on one of its values
Build ==
    /\ nexec >= 1
    /\ Len(builders) < MaxScript
    /\ \/ \E b \in DOMAIN builders : Arg(b, "y")
       \/ \E b \in DOMAIN builders : Env(b, "K", "2")

\* the script awaits each execution before it starts the next: Exec is
\* called only with every handle issued so far settled
Awaited == \A h \in Issued : promise[h].state \in {"fulfilled", "rejected"}

\* a script of MaxExec executions, one after the other, with Arg and Env
\* calls on its values after the first
NextScript == Build \/ (Awaited /\ Call) \/ RunTwo

SpecScript == InitScript /\ [][NextScript]_vars

(***************************************************************************)
(* The bridge alone: a test harness that takes handles from                *)
(* makeHandledPromise and calls their resolve and reject itself.           *)
(***************************************************************************)
Values == {StringValue("v"), StringValue("w")}

MakeHandled ==
    /\ loop = "running"
    /\ ~panicked
    /\ nexec < MaxExec
    /\ nexec' = nexec + 1
    /\ SetBridge(makeHandledPromise(Bridge, nexec + 1))
    /\ UNCHANGED <<bvars, loop, pvars>>

CallResolve(h, v, dup) ==
    /\ ~panicked
    /\ calls[h].resolve + calls[h].reject < MaxCalls
    /\ SetBridge(resolve(Bridge, h, v, dup))
    /\ UNCHANGED <<bvars, nexec, loop, pvars>>

CallReject(h, v, dup) ==
    /\ ~panicked
    /\ calls[h].resolve + calls[h].reject < MaxCalls
    /\ SetBridge(reject(Bridge, h, v, dup))
    /\ UNCHANGED <<bvars, nexec, loop, pvars>>

NextBridge ==
    \/ MakeHandled
    \/ \E h \in Issued, v \in Values, dup \in Dups : CallResolve(h, v, dup)
    \/ \E h \in Issued, v \in Values, dup \in Dups : CallReject(h, v, dup)
    \/ RunCallback
    \/ LoopFinish

SpecBridge == Init /\ [][NextBridge]_vars

(***************************************************************************)
(* Claims.                                                                 *)
(***************************************************************************)
\* how often the wrapped resolve and reject of handle h were called together
Settlements(h) == calls[h].resolve + calls[h].reject

\* the path of the h-th Exec has ended: a launch fault, or the worker returned
PathEnded(h) == h \in Issued /\ worker[h].pc \in {"none", "done"}

\* the closures of handle h waiting in the loop's queue
Queued(h) == {k \in DOMAIN queue : queue[k].id = h}

\* C1: on every path of every Exec the handle is settled at most once, by
\* resolve or by reject and never by both; a path that has ended (launch
\* fault, read error, termination of the process) made exactly one call, and
\* a settled promise was settled by the call that was made.
C1_SettledOnceByOne ==
    \A h \in Issued :
       /\ Settlements(h) <= 1
       /\ cbCalls[h] = Settlements(h)
       /\ PathEnded(h) => Settlements(h) = 1
       /\ promise[h].state = "fulfilled" => calls[h].resolve = 1
       /\ promise[h].state = "rejected" => calls[h].reject = 1
       /\ Cardinality(Queued(h)) <= 1

\* C1 witness: a path through a stream read failure has ended with its one
\* settlement: the child closed stdout and runs on, the read of stderr
\* failed, the worker returned and the handle is rejected with that error
C1_Witness ==
    \E h \in Issued :
       /\ proc[h].state = "running"
       /\ worker[h].pc = "done"
       /\ calls[h] = [resolve |-> 0, reject |-> 1]
       /\ promise[h].state = "rejected"
       /\ promise[h].value = ErrorValue("ErrReadStderr")

\* a launch fault, as the claim defines it: no path to run, or a pipe or the
\* start failed
IsLaunchFault(a) == a.look = "notfound" \/ a.fail # "none"

\* C4: a launch fault always rejects the handle and never fulfils it; no
\* process and no worker exist for it, and no result or sample is produced.
C4_LaunchFaultRejects ==
    \A h \in Issued :
       IsLaunchFault(launch[h]) =>
          /\ calls[h] = [resolve |-> 0, reject |-> 1]
          /\ promise[h].state \in {"pending", "rejected"}
          /\ \A k \in Queued(h) : queue[k].kind = "reject"
          /\ proc[h].state = "none"
          /\ worker[h] = NoWorker
          /\ emitted[h] = <<>>

\* C4 witness: a handle rejected because the stderr pipe could not be attached
C4_Witness ==
    \E h \in Issued :
       /\ launch[h].fail = "stderrpipe"
       /\ promise[h].state = "rejected"
       /\ promise[h].value = ErrorValue("ErrStderrPipe")

\* C5: a started process that exits by itself with a non-zero code, its
\* streams drained without read error, ends in resolve (never reject) with
\* the result's exitCode equal to the code the process exited with, and the
\* promise, once settled, is fulfilled with that code.
C5_NonZeroExitFulfils ==
    \A h \in Issued :
       (/\ proc[h].state = "exited"
        /\ proc[h].code # 0
        /\ worker[h].pc = "done"
        /\ calls[h].reject = 0) =>
          /\ calls[h].resolve = 1
          /\ promise[h].state \in {"pending", "fulfilled"}
          /\ promise[h].state = "fulfilled" =>
                promise[h].value.exitCode = proc[h].code
          /\ \A k \in Queued(h) :
                queue[k].kind = "resolve" /\ queue[k].val.exitCode = proc[h].code

\* C5 witness: a process exited with code 1 and its handle is fulfilled with 1
C5_Witness ==
    \E h \in Issued :
       /\ proc[h].state = "exited"
       /\ proc[h].code = 1
       /\ promise[h].state = "fulfilled"
       /\ promise[h].value.exitCode = 1

\* C6: the exec_command_failed_rate sample of an execution is 1 when the
\* command ended with a non-zero exit code and 0 when it exited with code 0.
C6_FailedRateIsFailure ==
    \A h \in Issued :
       \A k \in DOMAIN emitted[h] :
          emitted[h][k][5].Value = (IF proc[h].code # 0 THEN 1 ELSE 0)

\* the decimal text of an exit code
DecimalOf(code) ==
    CASE code = -1 -> "-1" [] code = 0 -> "0" [] code = 1 -> "1"
      [] code = 2 -> "2" [] code = 3 -> "3"

MetricNames ==
    <<"exec_command_duration", "exec_commands_total",
      "exec_command_stdout_bytes", "exec_command_stderr_bytes",
      "exec_command_failed_rate">>

\* batch is the batch of execution h: five samples, one per metric, sharing
\* one tag set that names h's own executable and h's own exit code, counting
\* h's own output
OwnBatch(h, batch) ==
    /\ Len(batch) = 5
    /\ \A k \in 1..5 :
          /\ batch[k].Metric = MetricNames[k]
          /\ batch[k].Tags = batch[1].Tags
          /\ batch[k].Time = batch[1].Time
    /\ {t \in batch[1].Tags : t[1] = "exit_code"}
          = {<<"exit_code", DecimalOf(proc[h].code)>>}
    /\ {t \in batch[1].Tags : t[1] = "executable"}
          = {<<"executable", proc[h].argv[1]>>}
    /\ AmbientTags \subseteq batch[1].Tags
    /\ batch[2].Value = 1
    /\ batch[3].Value = Len(proc[h].wrote.stdout)
    /\ batch[4].Value = Len(proc[h].wrote.stderr)

\* the handle of h is settled
Settled(h) == promise[h].state \in {"fulfilled", "rejected"}

\* C7: with two or more executions issued concurrently, under every
\* interleaving, all handles settle, each fulfilled handle carries the exit
\* code and the output of its own process, and each execution emits exactly
\* one batch of five samples that is its own (OwnBatch: one tag set, its own
\* exit_code and executable, one instant). The claim is read in its favour:
\* settling and the batch are owed only once the launch has failed or the
\* process has ended, a cancelled context excuses both (the loop is then
\* gone and PushIfNotDone sends nothing), and no batch is owed by an
\* execution without a process or one that rejected on a stream fault.
C7_ConcurrentIndependent ==
    /\ \A h \in Execs :
          (nexec >= 2 /\ h \in Issued
             /\ (IsLaunchFault(launch[h]) \/ Gone(proc[h])))
             ~> (Settled(h) \/ ctxDone)
    /\ \A h \in Execs :
          (nexec >= 2 /\ h \in Issued /\ Gone(proc[h]))
             ~> (Len(emitted[h]) = 1 \/ calls[h].reject = 1 \/ ctxDone)
    /\ [](\A h \in Issued :
             /\ promise[h].state = "fulfilled" =>
                   promise[h].value = CommandResult(proc[h].code,
                                                    proc[h].wrote.stdout,
                                                    proc[h].wrote.stderr)
             /\ Len(emitted[h]) <= 1
             /\ \A k \in DOMAIN emitted[h] : OwnBatch(h, emitted[h][k]))

\* C3: each Exec takes one registration from the loop and gives it back
\* once, the settlement running inside the closure handed to the callback:
\* the loop's count is the number of handles whose callback was not yet
\* called, no callback is called twice, a promise is settled only after its
\* callback was called, the loop never finishes with a handle pending, and
\* once the launch has failed or the process is gone the callback is called.
C3_TicketRedeemedOnce ==
    /\ [](\A h \in Issued :
             /\ cbCalls[h] <= 1
             /\ promise[h].state \in {"fulfilled", "rejected"} => cbCalls[h] = 1)
    /\ [](registeredCallbacks = Cardinality({h \in Issued : cbCalls[h] = 0}))
    /\ [](loop = "finished" => \A h \in Issued : promise[h].state # "pending")
    /\ \A h \in Execs :
          (h \in Issued /\ (IsLaunchFault(launch[h]) \/ Gone(proc[h])))
             ~> (cbCalls[h] = 1)

\* C8: once the context is cancelled with the process still running, the
\* process ends, its worker returns, and the handle is settled or the loop is
\* gone; the worker's settlement is made exactly once.
C8_CancelTerminates ==
    /\ \A h \in Execs :
          (h \in Issued /\ ctxDone /\ proc[h].state = "running")
             ~> (/\ Gone(proc[h])
                 /\ worker[h].pc = "done"
                 /\ promise[h].state \in {"fulfilled", "rejected"}
                       \/ loop = "stopped")
    /\ [](\A h \in Issued :
             /\ Settlements(h) <= 1
             /\ worker[h].pc = "done" => Settlements(h) = 1)

\* C2: calling resolve or reject of a handle that was already settled through
\* one of them is a no-op: the callback of RegisterCallback is not called
\* again, nothing is queued, nothing panics, and the promise is unchanged.
C2_SecondSettlementIsNoop ==
    [][\A h \in Issued :
          (Settlements(h) >= 1 /\ calls'[h] # calls[h]) =>
             /\ cbCalls'[h] = cbCalls[h]
             /\ queue' = queue
             /\ panicked' = panicked
             /\ promise'[h] = promise[h]]_vars

\* C9: no call changes the argument sequence of a builder value produced
\* before it: after X = B.Arg(x) and Y = B.Arg(y), X still reads B's
\* arguments followed by x, and B reads what it read before.
C9_ArgKeepsEarlierBuilders ==
    [][\A b \in DOMAIN builders :
          SliceOf(arrays', builders'[b]) = SliceOf(arrays, builders[b])]_vars

\* C10: no call changes the environment read through a builder value
\* produced before it: after X = B.Env(k, v) the mapping seen through B and
\* through every other earlier value is what it was.
C10_EnvKeepsEarlierBuilders ==
    [][\A b \in DOMAIN builders :
          envs'[builders'[b].env] = envs[builders[b].env]]_vars

\* the environment mapping a chain denotes: the keys set, each with the
\* value of its last Env call
EnvOf(vs) == {<<k, vs[k]>> : k \in {j \in EnvKeys : vs[j] # ""}}

\* C11: the builder at the end of a chain of Arg and Env calls from a fresh
\* builder reads as its arguments the Arg values in call order, duplicates
\* kept, and as its environment each key with the value of the last Env call
\* for it, however the Arg and Env calls are interleaved.
C11_ChainOrderLastWins ==
    \A b \in DOMAIN builders :
       Leaf(b) => /\ args(builders[b]) = chain[b].args
                  /\ env(builders[b]) = EnvOf(chain[b].env)

\* C11 witness: new Cmd(n).env("K","1").arg("y").env("K","2").arg("y")
\* .env("L","1"): a duplicate argument and an overwritten key, interleaved
C11_Witness ==
    /\ Len(builders) = 6
    /\ \A k \in 2..6 : chain[k].from = k - 1
    /\ chain[2].env["K"] = "1"
    /\ chain[6].args = <<"y", "y">>
    /\ chain[6].env = [Fresh.env EXCEPT !["K"] = "2", !["L"] = "1"]
    /\ args(builders[6]) = <<"y", "y">>
    /\ env(builders[6]) = {<<"K", "2">>, <<"L", "1">>}

\* C12: the handle Exec returns is pending when Exec returns, also when the
\* launch failed, and afterwards the state of a handle changes only in a step
\* of the event loop running the closure queued for it; no step of Exec or of
\* a worker settles a promise.
C12_PendingThenLoopSettles ==
    [][\A h \in Execs :
          /\ (nexec' = h /\ nexec = h - 1) => promise'[h].state = "pending"
          /\ (h \in Issued /\ promise'[h] # promise[h]) =>
                /\ RunCallback
                /\ Head(queue).id = h
                /\ promise[h].state = "pending"]_vars

\* C12 witness: Exec has returned after a launch fault; the handle is pending
\* and its rejection waits in the loop's queue
C12_Witness ==
    \E h \in Issued :
       /\ IsLaunchFault(launch[h])
       /\ promise[h].state = "pending"
       /\ calls[h].reject = 1
       /\ Queued(h) # {}

\* the worker of h is in a Read that cannot return: nothing is buffered on
\* the stream it reads and the stream's write end is still open
ReadWaits(h) ==
    \/ /\ worker[h].pc = "readStdout"
       /\ proc[h].stdout = ""
       /\ ~Closed(proc[h], "stdout")
    \/ /\ worker[h].pc = "readStderr"
       /\ proc[h].stderr = ""
       /\ ~Closed(proc[h], "stderr")

\* the child of h is in a write that cannot return: the pipe it writes to is
\* full
WriteWaits(h) ==
    /\ proc[h].state = "running"
    /\ proc[h].blocked # <<>>
    /\ Len(proc[h][proc[h].blocked[1]]) >= PipeCap

\* C13: both streams are drained concurrently, so the worker and the child
\* never wait for each other: the child is never held in a write to a full
\* pipe while the worker waits in a Read of the other, empty stream.
C13_DrainNeverDeadlocks ==
    \A h \in Issued : ~(ReadWaits(h) /\ WriteWaits(h))

\* C14: a started process is waited on by its worker on every path after the
\* start: a worker that has returned has called cmd.Wait on its process, so
\* that no process is left unreaped with its pipes open.
C14_ReturnedWorkerHasReaped ==
    \A h \in Issued :
       (proc[h].state # "none" /\ worker[h].pc = "done") => proc[h].waited

\* C15: once the process has been started the handle is never rejected,
\* whatever happens afterwards, a read error on a stream included.
C15_NeverRejectedAfterStart ==
    \A h \in Issued :
       proc[h].state # "none" =>
          /\ calls[h].reject = 0
          /\ promise[h].state # "rejected"

\* the errors of io.ReadAll the worker rejects with
StreamFaults == {ErrorValue("ErrReadStdout"), ErrorValue("ErrReadStderr")}

\* C15 amended: once the process has been started the handle is rejected
\* only with an error of reading a stream; every other end (any exit code,
\* forced termination by cancellation) is a resolve with a CommandResult made
\* of the worker's exit code and captured output.
C15_RejectedOnlyByStreamFault ==
    \A h \in Issued :
       proc[h].state # "none" =>
          /\ promise[h].state = "rejected" => promise[h].value \in StreamFaults
          /\ \A k \in Queued(h) :
                /\ queue[k].kind = "reject" => queue[k].val \in StreamFaults
                /\ queue[k].kind = "resolve" => queue[k].val = ResultOf(worker[h])
          /\ promise[h].state = "fulfilled" => promise[h].value = ResultOf(worker[h])
          /\ (worker[h].pc = "done" /\ calls[h].reject = 0) => calls[h].resolve = 1
          /\ calls[h].reject = 1 => (calls[h].resolve = 0 /\ ~proc[h].waited)

\* C15 witness: a process killed by the cancellation whose handle is
\* fulfilled with a CommandResult
C15_Witness ==
    \E h \in Issued :
       /\ proc[h].state = "killed"
       /\ promise[h].state = "fulfilled"
       /\ promise[h].value.type = "CommandResult"
       /\ promise[h].value.exitCode = -1

\* C16: the worker reports exit code 0 only when cmd.Wait returned no error;
\* when Wait returns an error that carries an exit code the worker reports
\* that code, and an error that carries none is not reported as 0.
C16_ZeroOnlyWithoutWaitError ==
    [][\A h \in Issued :
          (worker[h].pc = "wait" /\ worker'[h].pc = "push") =>
             LET err == WaitErr(proc[h], ctxDone)
             IN /\ err.kind = "ExitError" => worker'[h].exitCode = err.code
                /\ worker'[h].exitCode = 0 => err.kind = "nil"]_vars

\* the worker of h is in a send that cannot return: its batch is built, the
\* context is not cancelled and the sample channel is full
SendWaits(h) ==
    /\ worker[h].pc = "send"
    /\ ~ctxDone
    /\ Len(Samples) >= SinkCap

\* C17: emission never delays or prevents the settlement: a worker whose
\* batch the sample channel does not accept goes on to settle its handle, so
\* no worker is ever held, its handle unsettled, by a full channel.
C17_FullSinkNeverHoldsWorker ==
    \A h \in Issued : ~(SendWaits(h) /\ Settlements(h) = 0)

\* both streams of h are read to end of file: every write end is closed,
\* nothing is left in the pipes, and the worker holds every byte that was
\* written
Drained(h) ==
    /\ Closed(proc[h], "stdout")
    /\ Closed(proc[h], "stderr")
    /\ proc[h].stdout = ""
    /\ proc[h].stderr = ""
    /\ worker[h].stdoutBytes = proc[h].wrote.stdout
    /\ worker[h].stderrBytes = proc[h].wrote.stderr

\* C18: the steps of one execution are ordered. A process exists only after
\* both pipes were attached; the worker is at or past cmd.Wait only with
\* both streams read to end of file; a batch is sent and a resolve made only
\* after Wait, and both carry the finished result: the exit code taken at
\* Wait and the whole output of both streams.
C18_StepsInOrder ==
    \A h \in Issued :
       /\ proc[h].state # "none" => launch[h] = Answers("found", "none")
       /\ worker[h].pc \in {"wait", "push", "send", "resolve"} => Drained(h)
       /\ proc[h].waited => (Drained(h) /\ Gone(proc[h]))
       /\ worker[h].pc \in {"push", "send"} => emitted[h] = <<>>
       /\ worker[h].pc \in {"push", "send", "resolve"} =>
             /\ proc[h].waited
             /\ calls[h].resolve = 0
             /\ worker[h].batch = ConnectedSamples(
                    proc[h].argv[1], worker[h].exitCode,
                    proc[h].wrote.stdout, proc[h].wrote.stderr,
                    worker[h].batch[1].Time)
       /\ emitted[h] # <<>> =>
             /\ proc[h].waited
             /\ worker[h].pc \in {"resolve", "done"}
       /\ calls[h].resolve > 0 =>
             /\ proc[h].waited
             /\ worker[h].pc = "done"
       /\ \A k \in DOMAIN emitted[h] : emitted[h][k] = worker[h].batch
       /\ \A k \in Queued(h) :
             queue[k].kind = "resolve" =>
                queue[k].val = CommandResult(worker[h].exitCode,
                                             proc[h].wrote.stdout,
                                             proc[h].wrote.stderr)

\* C18 witness: an execution with output on both streams whose batch was
\* sent and whose resolve waits in the loop's queue
C18_Witness ==
    \E h \in Issued :
       /\ proc[h].wrote.stdout # ""
       /\ proc[h].wrote.stderr # ""
       /\ Len(emitted[h]) = 1
       /\ \E k \in Queued(h) : queue[k].kind = "resolve"

\* C19: the call of Exec, which runs on the caller's thread, only creates
\* the handle and launches the worker: the step that issues handle h neither
\* resolves the executable path, sets up a pipe nor starts the process (the
\* system's answer to the launch and the process come later, from the
\* worker), and it always leaves a worker behind.
C19_CallerOnlyDispatches ==
    [][\A h \in Execs :
          (nexec = h - 1 /\ nexec' = h) =>
             /\ launch'[h] = launch[h]
             /\ proc'[h] = proc[h]
             /\ calls'[h] = [resolve |-> 0, reject |-> 0]
             /\ worker'[h].pc # "none"]_vars

\* what the program reads through builder value b: name, arguments and
\* environment, over a heap of arrays and a heap of maps
Reads(h, m, c) == [Name |-> c.Name, args |-> SliceOf(h, c), env |-> m[c.env]]

\* the process of h has been started
Started(p) == p.state # "none"

\* C20: Exec does not mutate the command, and Arg or Env calls made after an
\* Exec has returned change the arguments and the environment neither of the
\* execution in flight nor of any other execution. No step of Exec, of a
\* child, of a worker or of the loop changes the name, the arguments or the
\* environment read through any builder value; no step changes the arguments
\* or the environment of a process already started; and an execution of a
\* builder value is started with the arguments and the environment every
\* earlier execution of that same value was started with, whatever Arg and
\* Env calls were made in between.
C20_ExecLeavesCommandAlone ==
    [][/\ Len(builders') = Len(builders) =>
             \A b \in DOMAIN builders :
                Reads(arrays', envs', builders'[b]) = Reads(arrays, envs, builders[b])
       /\ \A h \in Execs :
             Started(proc[h]) =>
                /\ proc'[h].argv = proc[h].argv
                /\ proc'[h].environ = proc[h].environ
       /\ \A g, h \in Execs :
             (/\ Started(proc[g])
              /\ ~Started(proc[h])
              /\ Started(proc'[h])
              /\ worker'[h].cmd = worker[g].cmd) =>
                /\ proc'[h].argv = proc[g].argv
                /\ proc'[h].environ = proc[g].environ]_vars

====
